---- MODULE Spec2Model ----
(***************************************************************************)
(* Trial-schedule generation of the olfactometer config generators:        *)
(*   basic_plus_co2.make_config_dict  (the odor panel scheduler)           *)
(*   simple_pairs.make_config_dict    (the concentration-ramp pair         *)
(*                                     scheduler)                          *)
(* Each generator is a sequential function; pc is its position, one action *)
(* per block of statements.  An uncaught exception ends the call in        *)
(* pc = "error" with nothing returned.                                     *)
(*                                                                         *)
(* Python values: an optional key of `data` is <<>> when absent and <<v>>  *)
(* when present; a concentration is <<>> for None and <<v>> for a number;  *)
(* a dict is the sequence of its [pin, odor] items in insertion order.     *)
(***************************************************************************)
EXTENDS Integers, Sequences, FiniteSets

VARIABLES
    pc,                        \* position in make_config_dict
    data,                      \* the parsed YAML handed to make_config_dict
    odor_pins,                 \* panel: odor_pins, aliased by trial_pins
    pins2odors,                \* dict pin -> odor, in insertion order
    randomize_presentation_order,
    n_repeats,
    warnings,                  \* the warnings.warn calls made so far
    pinlist_at_each_trial,
    curr_co2_pin,              \* panel: the pin sampled for the CO2 odor
    pair,                      \* pairs: the element of odor_pairs in the loop
    co2_air_compensation_pin,  \* pairs
    lookups,                   \* pairs: (c1, c2, p1, p2) of the loop body, per emitted trial
    generated_config_dicts,    \* pairs: the list being returned
    err,                       \* the exception that ended the call
    returned                   \* the value make_config_dict returned

vars == <<pc, data, odor_pins, pins2odors, randomize_presentation_order,
          n_repeats, warnings, pinlist_at_each_trial, curr_co2_pin, pair,
          co2_air_compensation_pin, lookups, generated_config_dicts, err,
          returned>>

----------------------------------------------------------------------------
(* Bounds of the model *)

MaxOdors == 3
MaxRepeats == 2
MaxRamp == 2
MaxPairs == 2

----------------------------------------------------------------------------
(* Python values *)

Absent == <<>>
Some(v) == <<v>>
None == <<>>
NoPin == 0

Range(s) == {s[i] : i \in DOMAIN s}

Injections(n, m) ==
    {f \in [1..n -> 1..m] : \A i, j \in 1..n : f[i] = f[j] => i = j}

\* d[k] = v on a dict: an existing key keeps its place, a new key goes last
DictSet(d, k, v) ==
    IF \E i \in DOMAIN d : d[i].pin = k
    THEN [i \in DOMAIN d |-> IF d[i].pin = k THEN [pin |-> k, odor |-> v] ELSE d[i]]
    ELSE Append(d, [pin |-> k, odor |-> v])

DictKeys(d) == {d[i].pin : i \in DOMAIN d}

DictGet(d, k) == d[CHOOSE i \in DOMAIN d : d[i].pin = k].odor

\* {p: o for p, o in zip(pins, odors)}
RECURSIVE DictFromZip(_, _)
DictFromZip(pins, odors) ==
    IF Len(pins) = 0 \/ Len(odors) = 0 THEN <<>>
    ELSE LET n == IF Len(pins) < Len(odors) THEN Len(pins) ELSE Len(odors)
         IN  DictSet(DictFromZip(SubSeq(pins, 1, n - 1), SubSeq(odors, 1, n - 1)),
                     pins[n], odors[n])

\* sorted(set of pins)
RECURSIVE SortedPins(_)
SortedPins(S) ==
    IF S = {} THEN <<>>
    ELSE LET m == CHOOSE x \in S : \A y \in S : x <= y
         IN  <<m>> \o SortedPins(S \ {m})

----------------------------------------------------------------------------
(* The hardware description and common.get_available_pins / add_balance_pins *)

FirstValvePin == 2

\* pins k .. k+n-1 as a list
PinList(k, n) == [i \in 1..n |-> k + i - 1]

\* common.get_available_pins: None on a single manifold, else the balance
\* pin of each valve pin's manifold
Pins2Balances(d) ==
    IF d.single_manifold THEN None
    ELSE Some([p \in Range(d.available_group1_valve_pins)
                     \cup Range(d.available_group2_valve_pins) |->
                 IF p \in Range(d.available_group1_valve_pins)
                 THEN d.group1_balance_pin ELSE d.group2_balance_pin])

\* common.add_balance_pins: on a single manifold the firmware handles the one
\* balance pin; with two, each trial also lists the balance pins of its pins
add_balance_pins(trial_pinlists, pins2balances) ==
    IF pins2balances = None THEN trial_pinlists
    ELSE [t \in DOMAIN trial_pinlists |->
            trial_pinlists[t] \o
            SortedPins({pins2balances[1][p] : p \in Range(trial_pinlists[t])})]

----------------------------------------------------------------------------
(* basic_plus_co2.make_config_dict: the odor panel scheduler *)

PanelNames == {"A", "B", "CO2"}

PanelOdor(n) == [name |-> n, log10_conc |-> Some(-3)]

\* the valves of the documented rig, available_valve_pins: [2, 3, 4]
PanelValvePins == PinList(FirstValvePin, 3)

\* the rig with all its valves available, or with the last one taken out
PanelPools == {PanelValvePins, SubSeq(PanelValvePins, 1, Len(PanelValvePins) - 1)}

\* the pins after the valve pins: the CO2 pin and the balance pins of the
\* two manifolds
PanelCO2Pin == FirstValvePin + Len(PanelValvePins)
PanelBalance1 == PanelCO2Pin + 1
PanelBalance2 == PanelCO2Pin + 2

PanelOdorLists ==
    UNION {[1..n -> {PanelOdor(m) : m \in PanelNames}] : n \in 0..MaxOdors}

PanelData ==
    {[odors |-> o,
      available_group1_valve_pins |-> SubSeq(pool, 1, 1),
      available_group2_valve_pins |-> SubSeq(pool, 2, Len(pool)),
      available_valve_pins |-> pool,
      single_manifold |-> sm,
      group1_balance_pin |-> PanelBalance1,
      group2_balance_pin |-> PanelBalance2,
      randomize_presentation_order |-> r,
      n_repeats |-> nr,
      co2_pin |-> cp] :
        o \in PanelOdorLists, pool \in PanelPools, sm \in BOOLEAN,
        r \in {Absent, Some(TRUE), Some(FALSE)},
        nr \in {Absent} \cup {Some(k) : k \in 1..MaxRepeats},
        cp \in {Absent, Some(PanelCO2Pin), Some(FirstValvePin)}}

Idle ==
    /\ odor_pins = <<>>
    /\ pins2odors = <<>>
    /\ randomize_presentation_order = FALSE
    /\ n_repeats = 1
    /\ warnings = <<>>
    /\ pinlist_at_each_trial = <<>>
    /\ curr_co2_pin = NoPin
    /\ pair = <<>>
    /\ co2_air_compensation_pin = NoPin
    /\ lookups = <<>>
    /\ generated_config_dicts = <<>>
    /\ err = ""
    /\ returned = None

PanelInit ==
    /\ pc = "panel_start"
    /\ data \in PanelData
    /\ Idle

Raise(e) ==
    /\ pc' = "error"
    /\ err' = e

Return(v) ==
    /\ pc' = "done"
    /\ returned' = Some(v)

\* lines 87-94
EnoughPins(pool, n) == Len(pool) >= n

PanelCheckInputs ==
    /\ pc = "panel_start"
    /\ IF EnoughPins(data.available_valve_pins, Len(data.odors))
       THEN pc' = "panel_sample" /\ UNCHANGED err
       ELSE Raise("AssertionError:94")
    /\ UNCHANGED <<data, odor_pins, pins2odors, randomize_presentation_order,
                   n_repeats, warnings, pinlist_at_each_trial, curr_co2_pin,
                   pair, co2_air_compensation_pin, lookups,
                   generated_config_dicts, returned>>

\* a draw with replacement, as random.choices would make it
RandomSample_WithReplacement(population, k) ==
    {[i \in 1..k |-> population[f[i]]] : f \in [1..k -> 1..Len(population)]}

\* random.sample(population, k): k elements at distinct positions, any order
RandomSample(population, k) ==
    {[i \in 1..k |-> population[f[i]]] : f \in Injections(k, Len(population))}

\* lines 96-100
PanelSample ==
    /\ pc = "panel_sample"
    /\ \E s \in RandomSample(data.available_valve_pins, Len(data.odors)) :
          /\ odor_pins' = s
          /\ pins2odors' = DictFromZip(s, data.odors)
    /\ pc' = "panel_options"
    /\ UNCHANGED <<data, randomize_presentation_order, n_repeats, warnings,
                   pinlist_at_each_trial, curr_co2_pin, pair,
                   co2_air_compensation_pin, lookups, generated_config_dicts,
                   err, returned>>

\* the default taken for any odor list, `len(odors) >= 1` for `> 1`
ResolveRandomize_OneOdorToo(d) ==
    IF d.randomize_presentation_order # Absent
    THEN [ok |-> TRUE, value |-> d.randomize_presentation_order[1], warn |-> <<>>]
    ELSE IF Len(d.odors) >= 1
         THEN [ok |-> TRUE, value |-> TRUE, warn |-> <<"defaulting to randomize_presentation_order=True">>]
         ELSE [ok |-> FALSE, value |-> FALSE, warn |-> <<>>]

\* lines 102-114: the flag, the advisories and whether the assert of line 113 holds
ResolveRandomize(d) ==
    IF d.randomize_presentation_order # Absent
    THEN [ok |-> TRUE, value |-> d.randomize_presentation_order[1], warn |-> <<>>]
    ELSE IF Len(d.odors) > 1
         THEN [ok |-> TRUE, value |-> TRUE, warn |-> <<"defaulting to randomize_presentation_order=True">>]
         ELSE [ok |-> Len(d.odors) = 1, value |-> FALSE, warn |-> <<>>]

\* lines 116-124
ResolveRepeats(d, randomize) ==
    IF d.n_repeats # Absent
    THEN [value |-> d.n_repeats[1],
          warn |-> IF randomize THEN <<"only randomizes across odors">> ELSE <<>>]
    ELSE [value |-> 1, warn |-> <<>>]

PanelResolveOptions ==
    /\ pc = "panel_options"
    /\ LET r == ResolveRandomize(data)
           n == ResolveRepeats(data, r.value)
       IN  IF r.ok
           THEN /\ randomize_presentation_order' = r.value
                /\ n_repeats' = n.value
                /\ warnings' = r.warn \o n.warn
                /\ pc' = "panel_order"
                /\ UNCHANGED err
           ELSE /\ Raise("AssertionError:113")
                /\ UNCHANGED <<randomize_presentation_order, n_repeats, warnings>>
    /\ UNCHANGED <<data, odor_pins, pins2odors, pinlist_at_each_trial,
                   curr_co2_pin, pair, co2_air_compensation_pin, lookups,
                   generated_config_dicts, returned>>

\* random.shuffle(x): x becomes any permutation of itself
RandomShuffle(x) ==
    {[i \in 1..Len(x) |-> x[f[i]]] : f \in Injections(Len(x), Len(x))}

\* the loops the other way round: [[p] for _ in range(n_repeats) for p in trial_pins]
ExpandRepeats_Interleaved(trial_pins, n) ==
    [t \in 1..(Len(trial_pins) * n) |-> <<trial_pins[((t - 1) % Len(trial_pins)) + 1]>>]

\* line 132: [[p] for p in trial_pins for _ in range(n_repeats)]
ExpandRepeats(trial_pins, n) ==
    [t \in 1..(Len(trial_pins) * n) |-> <<trial_pins[((t - 1) \div n) + 1]>>]

\* lines 126-136: trial_pins is odor_pins itself, shuffled in place
PanelOrderTrials ==
    /\ pc = "panel_order"
    /\ \E s \in (IF randomize_presentation_order THEN RandomShuffle(odor_pins)
                 ELSE {odor_pins}) :
          /\ odor_pins' = s
          /\ pinlist_at_each_trial' =
                add_balance_pins(ExpandRepeats(s, n_repeats), Pins2Balances(data))
    /\ pc' = "panel_co2"
    /\ UNCHANGED <<data, pins2odors, randomize_presentation_order, n_repeats,
                   warnings, curr_co2_pin, pair, co2_air_compensation_pin,
                   lookups, generated_config_dicts, err, returned>>

\* line 138
Co2Odors(odors) == {i \in DOMAIN odors : odors[i].name = "CO2"}

\* line 148
CurrCo2Pins(d) == {d[i].pin : i \in {j \in DOMAIN d : d[j].odor.name = "CO2"}}

AirForCo2Mixture == [name |-> "air for co2-mixture compensation", log10_conc |-> Some(0)]

\* line 159: assert not any([co2_pin in pl for pl in pinlist_at_each_trial])
Co2PinUnused(co2_pin, pinlists) ==
    \A t \in DOMAIN pinlists : co2_pin \notin Range(pinlists[t])

\* the CO2 pin added to every trial, whatever it opens
RewireCo2_EveryTrial(pinlists, curr, co2_pin) ==
    [t \in DOMAIN pinlists |-> Append(pinlists[t], co2_pin)]

\* lines 160-162
RewireCo2(pinlists, curr, co2_pin) ==
    [t \in DOMAIN pinlists |->
        IF curr \in Range(pinlists[t]) THEN Append(pinlists[t], co2_pin)
        ELSE pinlists[t]]

\* lines 138-167: the rewiring when there is a CO2 odor, then the return
PanelCO2 ==
    /\ pc = "panel_co2"
    /\ LET co2_odors == Co2Odors(data.odors)
           curr == CHOOSE p \in CurrCo2Pins(pins2odors) : TRUE
           co2_pin == data.co2_pin[1]
           co2_odor == data.odors[CHOOSE i \in co2_odors : \A j \in co2_odors : i <= j]
           rewired == DictSet(DictSet(pins2odors, curr, AirForCo2Mixture),
                              co2_pin, co2_odor)
       IN  IF co2_odors = {}
           THEN /\ Return([pins2odors |-> pins2odors,
                           pinlist_at_each_trial |-> pinlist_at_each_trial])
                /\ UNCHANGED <<pins2odors, pinlist_at_each_trial, curr_co2_pin, err>>
           ELSE IF data.co2_pin = Absent
           THEN /\ Raise("AssertionError:140")
                /\ UNCHANGED <<pins2odors, pinlist_at_each_trial, curr_co2_pin, returned>>
           ELSE IF Cardinality(co2_odors) > 1
           THEN /\ Raise("NotImplementedError:144")
                /\ UNCHANGED <<pins2odors, pinlist_at_each_trial, curr_co2_pin, returned>>
           ELSE IF Cardinality(CurrCo2Pins(pins2odors)) # 1
           THEN /\ Raise("AssertionError:149")
                /\ UNCHANGED <<pins2odors, pinlist_at_each_trial, curr_co2_pin, returned>>
           ELSE IF ~Co2PinUnused(co2_pin, pinlist_at_each_trial)
           THEN \* pins2odors was rewritten by then, but it is a local
                /\ Raise("AssertionError:159")
                /\ curr_co2_pin' = curr
                /\ pins2odors' = rewired
                /\ UNCHANGED <<pinlist_at_each_trial, returned>>
           ELSE /\ curr_co2_pin' = curr
                /\ pins2odors' = rewired
                /\ pinlist_at_each_trial' = RewireCo2(pinlist_at_each_trial, curr, co2_pin)
                /\ Return([pins2odors |-> rewired,
                           pinlist_at_each_trial |->
                               RewireCo2(pinlist_at_each_trial, curr, co2_pin)])
                /\ UNCHANGED err
    /\ UNCHANGED <<data, odor_pins, randomize_presentation_order, n_repeats,
                   warnings, pair, co2_air_compensation_pin, lookups,
                   generated_config_dicts>>

PanelNext ==
    \/ PanelCheckInputs
    \/ PanelSample
    \/ PanelResolveOptions
    \/ PanelOrderTrials
    \/ PanelCO2

PanelSpec == PanelInit /\ [][PanelNext]_vars

----------------------------------------------------------------------------
(* simple_pairs.make_config_dict: the concentration-ramp pair scheduler *)

StreamNames == {"X", "Y", "CO2"}

ConcValues == {None, Some(-6), Some(-4)}

Ramps == UNION {[1..n -> ConcValues] : n \in 1..MaxRamp}

Streams == {[name |-> n, log10_concentrations |-> r] : n \in StreamNames, r \in Ramps}

ShortStreams == {[name |-> n, log10_concentrations |-> <<Some(-6)>>] : n \in StreamNames}

\* the elements odor_pairs can hold, {pair: [odor1, odor2]}: every pair of
\* streams when the list has one element, one-vial streams when it has more
\* (the pairs of a list are scheduled independently of each other)
LongPairs == Streams \X Streams

ShortPairs == ShortStreams \X ShortStreams

OdorPairs(d) == IF d.n_pairs = 1 THEN LongPairs ELSE ShortPairs

PairPoolSizes == {MaxRamp, MaxRamp + 1}

\* the pins of the pair hardware: manifold 1's pool, manifold 2's pool, then
\* the CO2 pin and the two balance pins
Group2FirstPin == FirstValvePin + MaxRamp + 1
PairCO2Pin == Group2FirstPin + MaxRamp + 1
PairBalance1 == PairCO2Pin + 1
PairBalance2 == PairCO2Pin + 2

PairData ==
    {[n_pairs |-> np,
      available_group1_valve_pins |-> PinList(FirstValvePin, s1),
      available_group2_valve_pins |-> PinList(Group2FirstPin, s2),
      single_manifold |-> sm,
      group1_balance_pin |-> PairBalance1,
      group2_balance_pin |-> b2,
      n_repeats |-> nr,
      co2_pin |-> cp] :
        np \in 1..MaxPairs, s1 \in PairPoolSizes, s2 \in PairPoolSizes,
        sm \in BOOLEAN, b2 \in {PairBalance1, PairBalance2},
        nr \in 1..MaxRepeats,
        cp \in {Absent, Some(PairCO2Pin), Some(FirstValvePin)}}

PairInit ==
    /\ pc = "pair_start"
    /\ data \in PairData
    /\ Idle

\* line 45: len(set(pins2balances.values())) == 2
TwoBalancePins(d) ==
    Cardinality({Pins2Balances(d)[1][p] : p \in DOMAIN Pins2Balances(d)[1]}) = 2

\* lines 26-54
PairCheckHardware ==
    /\ pc = "pair_start"
    /\ n_repeats' = data.n_repeats
    /\ IF data.single_manifold
       THEN Raise("AssertionError:42")
       ELSE IF ~TwoBalancePins(data)
       THEN Raise("AssertionError:45")
       ELSE pc' = "pair_loop" /\ UNCHANGED err
    /\ UNCHANGED <<data, odor_pins, pins2odors, randomize_presentation_order,
                   warnings, pinlist_at_each_trial, curr_co2_pin, pair,
                   co2_air_compensation_pin, lookups, generated_config_dicts,
                   returned>>

\* line 80
DistinctNames(p) == p[1].name # p[2].name

\* lines 69-86: the next element of odor_pairs (the loop body's locals are
\* bound anew before they are read); line 217 when the list is exhausted
PairLoop ==
    /\ pc = "pair_loop"
    /\ \/ /\ Len(generated_config_dicts) < data.n_pairs
          /\ \E p \in OdorPairs(data) :
                /\ pair' = p
                /\ IF DistinctNames(p)
                   THEN pc' = "pair_vials" /\ UNCHANGED err
                   ELSE Raise("AssertionError:80")
          /\ pins2odors' = <<>>
          /\ pinlist_at_each_trial' = <<>>
          /\ lookups' = <<>>
          /\ co2_air_compensation_pin' = NoPin
          /\ UNCHANGED returned
       \/ /\ Len(generated_config_dicts) = data.n_pairs
          /\ Return(generated_config_dicts)
          /\ UNCHANGED <<pair, pins2odors, pinlist_at_each_trial, lookups,
                         co2_air_compensation_pin, err>>
    /\ UNCHANGED <<data, odor_pins, randomize_presentation_order, n_repeats,
                   warnings, curr_co2_pin, generated_config_dicts>>

\* no room kept for the spare vial
EnoughGroupPins_NoSpare(pool, n_concentrations) == Len(pool) >= n_concentrations

\* line 97
EnoughGroupPins(pool, n_concentrations) == Len(pool) >= n_concentrations + 1

\* lines 99-101
GroupVials(stream) ==
    [k \in DOMAIN stream.log10_concentrations |->
        [name |-> stream.name, log10_conc |-> stream.log10_concentrations[k]]]

\* the last pins of the pool for the first: available_group_valve_pins[-len(group_vials):]
GroupPins_FromEnd(pool, n) ==
    SubSeq(pool, (IF n < Len(pool) THEN Len(pool) - n ELSE 0) + 1, Len(pool))

\* line 107: available_group_valve_pins[:len(group_vials)]
GroupPins(pool, n) == SubSeq(pool, 1, IF n < Len(pool) THEN n ELSE Len(pool))

\* the manifold pools in the order of manifold_odors (line 91)
GroupPools(d) == <<d.available_group1_valve_pins, d.available_group2_valve_pins>>

\* lines 88-107, for the streams 1..m of the pair
RECURSIVE VialLoop(_, _, _)
VialLoop(p, d, m) ==
    IF m = 0 THEN [ok |-> TRUE, odor_vials |-> <<>>, odor_pins |-> <<>>]
    ELSE LET before == VialLoop(p, d, m - 1)
             pool == GroupPools(d)[m]
             vials == GroupVials(p[m])
         IN  IF ~before.ok \/ p[m].name = "CO2" THEN before
             ELSE IF ~EnoughGroupPins(pool, Len(p[m].log10_concentrations))
             THEN [before EXCEPT !.ok = FALSE]
             ELSE [ok |-> TRUE,
                   odor_vials |-> before.odor_vials \o vials,
                   odor_pins |-> before.odor_pins \o GroupPins(pool, Len(vials))]

\* lines 88-111
PairAssignVials ==
    /\ pc = "pair_vials"
    /\ LET r == VialLoop(pair, data, 2)
       IN  IF r.ok
           THEN /\ pins2odors' = DictFromZip(r.odor_pins, r.odor_vials)
                /\ pc' = "pair_co2"
                /\ UNCHANGED err
           ELSE /\ Raise("AssertionError:97")
                /\ UNCHANGED pins2odors
    /\ UNCHANGED <<data, odor_pins, randomize_presentation_order, n_repeats,
                   warnings, pinlist_at_each_trial, curr_co2_pin, pair,
                   co2_air_compensation_pin, lookups, generated_config_dicts,
                   returned>>

HasCO2(p) == "CO2" \in {p[1].name, p[2].name}

\* odor_name2log10_concs['CO2']
Co2Concs(p) == IF p[1].name = "CO2" THEN p[1].log10_concentrations
               ELSE p[2].log10_concentrations

\* line 122: available_group_valve_pins is the variable of the for loop of
\* line 90, which the loop left bound to its last value
CompensationPool(d) == GroupPools(d)[Len(GroupPools(d))]

\* available_group_valve_pins[0]
LastPin_First(pool) == pool[1]

\* line 122: available_group_valve_pins[-1]
LastPin(pool) == pool[Len(pool)]

AirForCo2 == [name |-> "air for co2 compensation", log10_conc |-> Some(0)]

\* lines 113-125
PairWireCO2 ==
    /\ pc = "pair_co2"
    /\ LET pool == CompensationPool(data)
       IN  IF ~HasCO2(pair)
           THEN /\ pc' = "pair_trials"
                /\ UNCHANGED <<pins2odors, co2_air_compensation_pin, err>>
           ELSE IF Len(Co2Concs(pair)) # 1
           THEN /\ Raise("AssertionError:116")
                /\ UNCHANGED <<pins2odors, co2_air_compensation_pin>>
           ELSE IF data.co2_pin = Absent
           THEN /\ Raise("KeyError:119")
                /\ UNCHANGED <<pins2odors, co2_air_compensation_pin>>
           ELSE /\ co2_air_compensation_pin' = LastPin(pool)
                /\ pins2odors' =
                      DictSet(DictSet(pins2odors, data.co2_pin[1],
                                      [name |-> "CO2", log10_conc |-> Co2Concs(pair)[1]]),
                              LastPin(pool), AirForCo2)
                /\ pc' = "pair_trials"
                /\ UNCHANGED err
    /\ UNCHANGED <<data, odor_pins, randomize_presentation_order, n_repeats,
                   warnings, pinlist_at_each_trial, curr_co2_pin, pair,
                   lookups, generated_config_dicts, returned>>

\* tuple(o.items()) of a vial dict {'name': .., 'log10_conc': ..}
VialTuple(o) == <<o.name, o.log10_conc>>

\* lines 133-141
get_vial_tuple(single_manifold, name, log10_conc) ==
    IF single_manifold /\ log10_conc = None THEN <<"solvent">>
    ELSE VialTuple([name |-> name, log10_conc |-> log10_conc])

\* line 132: vials2pins, a later item of pins2odors replacing an earlier one
\* with the same tuple; <<>> when the tuple is no key
Vials2Pins(d, o) ==
    LET hits == {i \in DOMAIN d : VialTuple(d[i].odor) = o}
    IN  IF hits = {} THEN <<>>
        ELSE <<d[CHOOSE i \in hits : \A j \in hits : j <= i].pin>>

\* None keyed as 0 instead of float('-inf')
conc_sort_key_NoneAsZero(conc) ==
    IF conc # None THEN [neg_inf |-> FALSE, v |-> conc[1]]
    ELSE [neg_inf |-> FALSE, v |-> 0]

\* lines 154-160: a number, or float('-inf')
conc_sort_key(conc) ==
    IF conc # None THEN [neg_inf |-> FALSE, v |-> conc[1]]
    ELSE [neg_inf |-> TRUE, v |-> 0]

FloatLess(a, b) ==
    IF a.neg_inf THEN ~b.neg_inf
    ELSE ~b.neg_inf /\ a.v < b.v

\* sorted(concs, key=conc_sort_key): stable, ascending
RECURSIVE SortedConcs(_)
SortedConcs(concs) ==
    IF Len(concs) = 0 THEN <<>>
    ELSE LET x == concs[Len(concs)]
             s == SortedConcs(SubSeq(concs, 1, Len(concs) - 1))
             n == Cardinality({i \in DOMAIN s :
                                 ~FloatLess(conc_sort_key(x), conc_sort_key(s[i]))})
         IN  SubSeq(s, 1, n) \o <<x>> \o SubSeq(s, n + 1, Len(s))

\* lines 175-176: the (c1, c2) of the nested loops, in order
Combinations(c1s, c2s) ==
    [t \in 1..(Len(c1s) * Len(c2s)) |->
        <<c1s[((t - 1) \div Len(c2s)) + 1], c2s[((t - 1) % Len(c2s)) + 1]>>]

\* one balance pin for both manifolds, as on a single manifold
ManifoldBalancePins_OneOnly(d) ==
    IF d.single_manifold THEN <<>> ELSE <<d.group1_balance_pin>>

\* line 205: the two balance pins, closed in every trial of two manifolds
ManifoldBalancePins(d) ==
    IF d.single_manifold THEN <<>>
    ELSE <<d.group1_balance_pin, d.group2_balance_pin>>

\* lines 178-208: one pass of the loop body
LoopBody(p, d, dict, comp_pin, c) ==
    LET o1 == get_vial_tuple(d.single_manifold, p[1].name, c[1])
        o2 == get_vial_tuple(d.single_manifold, p[2].name, c[2])
        p1 == Vials2Pins(dict, o1)
        p2 == Vials2Pins(dict, o2)
        pins == SortedPins({p1[1], p2[1]})
    IN  IF p1 = <<>> \/ p2 = <<>>
        THEN [err |-> "KeyError:184", pins |-> <<>>, look |-> <<>>]
        ELSE IF ~d.single_manifold /\ Len(pins) # 2
        THEN [err |-> "AssertionError:196", pins |-> <<>>, look |-> <<>>]
        ELSE [err |-> "",
              pins |-> pins
                       \o ManifoldBalancePins(d)
                       \o (IF HasCO2(p) THEN <<comp_pin>> ELSE <<>>),
              look |-> [c1 |-> c[1], c2 |-> c[2], p1 |-> p1[1], p2 |-> p2[1]]]

\* line 210: [pins] * n_repeats for each pass, concatenated
Repeated(passes, n) ==
    [t \in 1..(Len(passes) * n) |-> passes[((t - 1) \div n) + 1]]

\* lines 132-215: the trials of the pair, appended to the list being returned
PairBuildTrials ==
    /\ pc = "pair_trials"
    /\ LET combos == Combinations(SortedConcs(pair[1].log10_concentrations),
                                  SortedConcs(pair[2].log10_concentrations))
           passes == [t \in DOMAIN combos |->
                        LoopBody(pair, data, pins2odors, co2_air_compensation_pin, combos[t])]
           failed == {t \in DOMAIN passes : passes[t].err # ""}
           pinlists == Repeated([t \in DOMAIN passes |-> passes[t].pins], n_repeats)
       IN  IF failed = {}
           THEN /\ pinlist_at_each_trial' = pinlists
                /\ lookups' = Repeated([t \in DOMAIN passes |-> passes[t].look], n_repeats)
                /\ generated_config_dicts' =
                      Append(generated_config_dicts,
                             [pins2odors |-> pins2odors,
                              pinlist_at_each_trial |-> pinlists])
                /\ pc' = "pair_loop"
                /\ UNCHANGED err
           ELSE /\ Raise(passes[CHOOSE t \in failed : \A u \in failed : t <= u].err)
                /\ UNCHANGED <<pinlist_at_each_trial, lookups, generated_config_dicts>>
    /\ UNCHANGED <<data, odor_pins, pins2odors, randomize_presentation_order,
                   n_repeats, warnings, curr_co2_pin, pair,
                   co2_air_compensation_pin, returned>>

PairNext ==
    \/ PairCheckHardware
    \/ PairLoop
    \/ PairAssignVials
    \/ PairWireCO2
    \/ PairBuildTrials

PairSpec == PairInit /\ [][PairNext]_vars

----------------------------------------------------------------------------
(* Either generator *)

Init == PanelInit \/ PairInit

Next == PanelNext \/ PairNext

Spec == Init /\ [][Next]_vars

----------------------------------------------------------------------------
(* Properties of the odor panel scheduler, under PanelSpec *)

\* n_repeats as the caller gave it: optional, 1 by default
PanelRepeats == IF data.n_repeats = Absent THEN 1 ELSE data.n_repeats[1]

PanelHasCO2 == \E i \in DOMAIN data.odors : data.odors[i].name = "CO2"

PanelBalancePins == {data.group1_balance_pin, data.group2_balance_pin}

\* the trials whose pin list holds pin p
TrialsWith(trials, p) == {t \in DOMAIN trials : p \in Range(trials[t])}

\* C2: the panel's trial list has N * n_repeats trials; the n_repeats trials
\* of block k are the same pin list, whose odor pin is the k-th pin of the
\* (possibly shuffled) odor order, alone or with the CO2 pin (and, on two
\* manifolds, its balance pin); different blocks open different odor pins,
\* so no odor's repeats are interleaved with another's.
C2_PanelRepeatBlocks ==
    pc = "done" =>
        LET trials == returned[1].pinlist_at_each_trial
            r == PanelRepeats
            Block(t) == (t - 1) \div r
        IN  /\ Len(trials) = Len(data.odors) * r
            /\ \A t, u \in DOMAIN trials :
                  /\ Block(t) = Block(u) => trials[t] = trials[u]
                  /\ Block(t) # Block(u) => trials[t][1] # trials[u][1]
            /\ \A t \in DOMAIN trials :
                  /\ trials[t][1] = odor_pins[Block(t) + 1]
                  /\ trials[t][1] \in Range(data.available_valve_pins)
                  /\ Range(trials[t]) \subseteq
                        {trials[t][1]}
                        \cup (IF PanelHasCO2 THEN {data.co2_pin[1]} ELSE {})
                        \cup (IF data.single_manifold THEN {} ELSE PanelBalancePins)
                  /\ data.single_manifold /\ ~PanelHasCO2 => Len(trials[t]) = 1

\* a randomized panel of three odors, one of them CO2, two repeats each,
\* presented in another order than the pins were drawn
C2_Witness ==
    /\ pc = "done"
    /\ Len(data.odors) = 3
    /\ PanelHasCO2
    /\ PanelRepeats = 2
    /\ randomize_presentation_order
    /\ odor_pins # [i \in DOMAIN pins2odors |-> pins2odors[i].pin]
    /\ Len(returned[1].pinlist_at_each_trial) = 6

\* C3: whenever the CO2 rewiring is applied, no trial held the CO2 pin before
\* it; after it the CO2 pin is in exactly the trials that hold the pin drawn
\* for the CO2 odor (n_repeats of them), that pin's entry is the air
\* compensation entry and the CO2 odor is the entry of the CO2 pin.
C3_Co2Rewiring ==
    [][(pc = "panel_co2" /\ pc' = "done" /\ PanelHasCO2) =>
          LET co2_pin == data.co2_pin[1]
              before == pinlist_at_each_trial
              after == returned'[1].pinlist_at_each_trial
              map == returned'[1].pins2odors
          IN  /\ TrialsWith(before, co2_pin) = {}
              /\ DictGet(pins2odors, curr_co2_pin').name = "CO2"
              /\ curr_co2_pin' # co2_pin
              /\ TrialsWith(after, co2_pin) = TrialsWith(after, curr_co2_pin')
              /\ TrialsWith(after, co2_pin) = TrialsWith(before, curr_co2_pin')
              /\ Cardinality(TrialsWith(after, co2_pin)) = PanelRepeats
              /\ \A t \in DOMAIN after :
                    Cardinality({i \in DOMAIN after[t] : after[t][i] = co2_pin}) <= 1
              /\ DictGet(map, curr_co2_pin') =
                    [name |-> "air for co2-mixture compensation", log10_conc |-> <<0>>]
              /\ DictGet(map, co2_pin) \in Range(data.odors)
              /\ DictGet(map, co2_pin).name = "CO2"
              /\ after = pinlist_at_each_trial' /\ map = pins2odors'
      ]_vars

\* odors [A, B, CO2] on the pool of three pins, no repeats: four entries in
\* the map and exactly one trial with the CO2 pin
C3_Witness ==
    /\ pc = "done"
    /\ [i \in DOMAIN data.odors |-> data.odors[i].name] = <<"A", "B", "CO2">>
    /\ Len(data.available_valve_pins) = 3
    /\ data.co2_pin = <<PanelCO2Pin>>
    /\ PanelRepeats = 1
    /\ Len(returned[1].pins2odors) = 4
    /\ Cardinality(TrialsWith(returned[1].pinlist_at_each_trial, PanelCO2Pin)) = 1
    /\ Cardinality(TrialsWith(returned[1].pinlist_at_each_trial, curr_co2_pin)) = 1

\* C6: the returned pin -> odor map has N entries (N + 1 with a CO2 odor) on
\* distinct keys drawn from the pool (plus the CO2 pin); every odor of the
\* list has its own pool pin: as many pool pins carry a descriptor as the list
\* holds copies of it, the CO2 odor's pool pin carrying the compensation air
\* and the CO2 pin the CO2 odor.
C6_PanelPinMap ==
    pc = "done" =>
        LET map == returned[1].pins2odors
            odors == data.odors
            pool == Range(data.available_valve_pins)
            Named(n) == {i \in DOMAIN map : map[i].odor.name = n}
        IN  /\ Len(map) = Len(odors) + (IF PanelHasCO2 THEN 1 ELSE 0)
            /\ Cardinality(DictKeys(map)) = Len(map)
            /\ DictKeys(map) \subseteq
                  pool \cup (IF PanelHasCO2 THEN {data.co2_pin[1]} ELSE {})
            /\ \A n \in PanelNames \ {"CO2"} :
                  /\ Cardinality(Named(n)) =
                        Cardinality({j \in DOMAIN odors : odors[j].name = n})
                  /\ \A i \in Named(n) : map[i].odor \in Range(odors) /\ map[i].pin \in pool
            /\ Cardinality(Named("CO2")) = (IF PanelHasCO2 THEN 1 ELSE 0)
            /\ Cardinality(Named("air for co2-mixture compensation")) =
                  (IF PanelHasCO2 THEN 1 ELSE 0)
            /\ \A i \in Named("CO2") :
                  map[i].pin = data.co2_pin[1] /\ map[i].odor \in Range(odors)
            /\ \A i \in Named("air for co2-mixture compensation") : map[i].pin \in pool

\* three odors with a repeated name and CO2, on a pool of three pins
C6_Witness ==
    /\ pc = "done"
    /\ [i \in DOMAIN data.odors |-> data.odors[i].name] = <<"A", "CO2", "A">>
    /\ Len(returned[1].pins2odors) = 4
    /\ DictKeys(returned[1].pins2odors) =
          Range(data.available_valve_pins) \cup {PanelCO2Pin}

----------------------------------------------------------------------------
(* Properties of the concentration-ramp pair scheduler, under PairSpec *)

\* the last pair of the loop has been scheduled and appended; the loop
\* body's locals still hold its map, trials and lookups
PairScheduled == pc \in {"pair_loop", "done"} /\ generated_config_dicts # <<>>

LastConfig == generated_config_dicts[Len(generated_config_dicts)]

Ramp(m) == pair[m].log10_concentrations

Pool(m) == IF m = 1 THEN data.available_group1_valve_pins
           ELSE data.available_group2_valve_pins

\* None below every number
ConcLeq(a, b) == a = None \/ (b # None /\ a[1] <= b[1])

Ascending(s) == \A i \in 1..(Len(s) - 1) : ConcLeq(s[i], s[i + 1])

Arrangements(s) ==
    {[i \in DOMAIN s |-> s[f[i]]] : f \in Injections(Len(s), Len(s))}

LexLeq(x, y) ==
    IF x.c1 = y.c1 THEN ConcLeq(x.c2, y.c2) ELSE ConcLeq(x.c1, y.c1)

\* the trials of a pair are the cross-product of the two ramps, each in
\* ascending order with None lowest, stream 1 in the outer loop; each
\* combination is n_repeats consecutive identical trials and there are
\* len(ramp1) * len(ramp2) * n_repeats trials
CrossProduct ==
    LET trials == LastConfig.pinlist_at_each_trial
        n == data.n_repeats
        l1 == Len(Ramp(1))
        l2 == Len(Ramp(2))
    IN  /\ trials = pinlist_at_each_trial
        /\ Len(trials) = l1 * l2 * n
        /\ Len(lookups) = Len(trials)
        /\ \A t, u \in DOMAIN trials :
              (t - 1) \div n = (u - 1) \div n =>
                  trials[t] = trials[u] /\ lookups[t] = lookups[u]
        /\ \E s1 \in Arrangements(Ramp(1)), s2 \in Arrangements(Ramp(2)) :
              /\ Ascending(s1) /\ Ascending(s2)
              /\ \A i \in 1..l1, j \in 1..l2, k \in 1..n :
                    LET t == ((i - 1) * l2 + (j - 1)) * n + k
                    IN  lookups[t].c1 = s1[i] /\ lookups[t].c2 = s2[j]

LexNonDecreasing ==
    \A t \in 1..(Len(lookups) - 1) : LexLeq(lookups[t], lookups[t + 1])

NoRepeatedConc(r) == \A i, j \in DOMAIN r : r[i] = r[j] => i = j

SoundPair ==
    /\ pair # <<>>
    /\ ~data.single_manifold
    /\ data.group1_balance_pin # data.group2_balance_pin
    /\ Range(Pool(1)) \cap Range(Pool(2)) = {}
    /\ data.co2_pin # Absent => data.co2_pin[1] \notin Range(Pool(1)) \cup Range(Pool(2))
    /\ pair[1].name # pair[2].name
    /\ \A m \in 1..2 : pair[m].name # "CO2" => Len(Pool(m)) >= Len(Ramp(m)) + 1

\* the stream named CO2, when there is one
Co2Stream == IF pair[1].name = "CO2" THEN 1 ELSE 2

\* C4: on sound hardware, for the CO2 stream no vials are synthesized, the
\* CO2 pin is wired to the one CO2 concentration, and the air-compensation
\* vial is on the last pin of the CO2 stream's own manifold pool.
C4_Co2OwnManifold ==
    (pc = "pair_trials" /\ HasCO2(pair) /\ SoundPair) =>
        /\ \A i \in DOMAIN pins2odors :
              pins2odors[i].odor.name = "CO2" =>
                  /\ pins2odors[i].pin = data.co2_pin[1]
                  /\ pins2odors[i].odor.log10_conc = Ramp(Co2Stream)[1]
        /\ \E i \in DOMAIN pins2odors :
              pins2odors[i].pin = data.co2_pin[1] /\ pins2odors[i].odor.name = "CO2"
        /\ co2_air_compensation_pin = Pool(Co2Stream)[Len(Pool(Co2Stream))]
        /\ DictGet(pins2odors, co2_air_compensation_pin).name = "air for co2 compensation"

\* C5: every trial of a pair opens the pin wired to stream 1's vial at c1,
\* the pin wired to stream 2's vial at c2, which differ, and both balance
\* pins: 4 distinct pins, and a fifth, the pin the map wires to the
\* compensation air, when a stream is CO2.
C5_TrialPins ==
    PairScheduled =>
        \A t \in DOMAIN LastConfig.pinlist_at_each_trial :
            LET pins == LastConfig.pinlist_at_each_trial[t]
                map == LastConfig.pins2odors
                l == lookups[t]
            IN  /\ l.p1 \in DictKeys(map) /\ l.p2 \in DictKeys(map)
                /\ DictGet(map, l.p1) = [name |-> pair[1].name, log10_conc |-> l.c1]
                /\ DictGet(map, l.p2) = [name |-> pair[2].name, log10_conc |-> l.c2]
                /\ l.p1 # l.p2
                /\ Cardinality(Range(pins)) = Len(pins)
                /\ Len(pins) = (IF HasCO2(pair) THEN 5 ELSE 4)
                /\ {l.p1, l.p2, data.group1_balance_pin, data.group2_balance_pin}
                      \subseteq Range(pins)
                /\ \A p \in Range(pins) \ {l.p1, l.p2, data.group1_balance_pin,
                                           data.group2_balance_pin} :
                      /\ HasCO2(pair)
                      /\ p = co2_air_compensation_pin
                      /\ p \in DictKeys(map)
                      /\ DictGet(map, p).name = "air for co2 compensation"

\* two ramps of two concentrations, two repeats: 8 trials of 4 pins
C5_Witness ==
    /\ PairScheduled
    /\ pair[1].name = "X" /\ Ramp(1) = <<Some(-6), Some(-4)>>
    /\ pair[2].name = "Y" /\ Ramp(2) = <<Some(-6), Some(-4)>>
    /\ Len(Pool(1)) = 3 /\ Len(Pool(2)) = 3
    /\ data.n_repeats = 2
    /\ Len(pinlist_at_each_trial) = 8
    /\ \A t \in 1..8 : Len(pinlist_at_each_trial[t]) = 4

C10_LookupsSucceed ==
    SoundPair =>
        /\ err \notin {"KeyError:184", "AssertionError:196"}
        /\ (HasCO2(pair) => data.co2_pin # Absent /\ Len(Ramp(Co2Stream)) = 1)
              => pc # "error"
        /\ PairScheduled =>
              /\ Len(lookups) = Len(Ramp(1)) * Len(Ramp(2)) * data.n_repeats
              /\ \A t \in DOMAIN lookups :
                    LET l == lookups[t]
                        map == LastConfig.pins2odors
                        Entry(p) == {map[i].odor : i \in {j \in DOMAIN map : map[j].pin = p}}
                    IN  /\ l.p1 # l.p2
                        /\ {l.p1, l.p2} \subseteq Range(LastConfig.pinlist_at_each_trial[t])
                        /\ Entry(l.p1) = {[name |-> pair[1].name, log10_conc |-> l.c1]}
                        /\ Entry(l.p2) = {[name |-> pair[2].name, log10_conc |-> l.c2]}

\* CO2 as stream 1 beside a full ramp whose pool has just the one spare pin
C10_Witness ==
    /\ SoundPair
    /\ PairScheduled
    /\ pair[1].name = "CO2"
    /\ Len(Ramp(2)) = 2 /\ Len(Pool(2)) = 3
    /\ None \in Range(Ramp(2))
    /\ Len(lookups) = 2 * data.n_repeats

----------------------------------------------------------------------------
(* Fatal configuration errors of either generator, under Spec *)

IsPanel == "odors" \in DOMAIN data

====
